---------------------------- MODULE Spec2Model ----------------------------
(***************************************************************************)
(* Model of the CiteMe front-end state core: the citation store            *)
(* (frontend/src/stores/citationStore.js), the header triggers that call   *)
(* it (MainPageHeader.vue, the main page) and the citation forms that fill *)
(* durable storage (useCitationFormActions.js, CitationWebForm.vue,        *)
(* CitationSourceForm.vue).                                                *)
(*                                                                         *)
(* JavaScript strings are sequences of one-character strings, so that the  *)
(* regular expressions and the concatenations of the code are computed     *)
(* character by character.  JSON values are tagged records.                *)
(***************************************************************************)
EXTENDS Integers, Sequences, FiniteSets, TLC

VARIABLES
    localStorage,        \* durable storage: key -> stored text, or Null
    documentTitle,       \* citationStore.js:34
    editorContent,       \* citationStore.js:35
    credibilityScore,    \* citationStore.js:36
    sources,             \* citationStore.js:37
    wordCount,           \* citationStore.js:38
    charCount,           \* citationStore.js:39
    previewContent,      \* previewContent.value.content, citationStore.js:42-45
    route,               \* router.currentRoute.value.path
    isCitationLoading,   \* citationStore.js:30
    disableCiteMeBtn,    \* citationStore.js:31
    selectedForm,        \* main page defineModel('selectedForm')
    citationStyle,       \* main page defineModel('citationStyle')
    requests,            \* axios.post calls awaiting their response
    toast,               \* the last toast.error message shown
    showWebForm,         \* CitationSourceSelector.vue:9
    currentOpenOptionalFields, \* CitationWebForm.vue:42
    webFormData,         \* formData of CitationWebForm.vue
    supplementUrls,      \* CitationWebForm.vue:20
    showSourceForm,      \* CitationSourceSelector.vue:10
    sourceFormData,      \* formData of CitationSourceForm.vue
    quotaExceeded,       \* the browser refuses localStorage.setItem
    unhandledError,      \* an exception left a callback of the application
    isLeftSidebarOpen,   \* citationStore.js:28
    isRightSidebarOpen,  \* citationStore.js:29
    activeSourceType,    \* RightSidebar.vue:12
    showSourceDetails    \* RightSidebar.vue:13

vars == <<localStorage, documentTitle, editorContent, credibilityScore, sources,
          wordCount, charCount, previewContent, route, isCitationLoading,
          disableCiteMeBtn, selectedForm, citationStyle, requests, toast,
          showWebForm, currentOpenOptionalFields,
          webFormData, supplementUrls, showSourceForm, sourceFormData,
          quotaExceeded, unhandledError, isLeftSidebarOpen,
          isRightSidebarOpen, activeSourceType, showSourceDetails>>

-----------------------------------------------------------------------------
(* JavaScript values *)

Null == [t |-> "null"]
Undefined == [t |-> "undefined"]
JStr(s) == [t |-> "str", v |-> s]
JBool(b) == [t |-> "bool", v |-> b]
JNum(n) == [t |-> "num", v |-> n]
JArr(a) == [t |-> "arr", v |-> a]
JObj(o) == [t |-> "obj", v |-> o]

\* obj[key] of JavaScript: undefined when the key is absent
Get(obj, key) == IF key \in DOMAIN obj.v THEN obj.v[key] ELSE Undefined

\* the characters String(v) yields for the values `+' concatenates here
StringOf(v) ==
    IF v.t = "str" THEN v.v
    ELSE IF v.t = "undefined" THEN <<"u","n","d","e","f","i","n","e","d">>
    ELSE <<"n","u","l","l">>

\* truthiness of the values the code tests with `!x' or `x &&'
Truthy(v) ==
    CASE v.t = "str" -> v.v # <<>>
      [] v.t = "bool" -> v.v
      [] v.t = "num" -> v.v # 0
      [] v.t \in {"arr", "obj", "json"} -> TRUE
      [] OTHER -> FALSE

-----------------------------------------------------------------------------
(* Characters and the regular expressions of updateCounts *)

\* the characters \s matches, among those the model's texts use
IsSpace(c) == c \in {" ", "\n", "\t"}

\* String.prototype.trim
RECURSIVE TrimLeft(_)
TrimLeft(s) == IF s # <<>> /\ IsSpace(Head(s)) THEN TrimLeft(Tail(s)) ELSE s

RECURSIVE TrimRight(_)
TrimRight(s) ==
    IF s # <<>> /\ IsSpace(s[Len(s)]) THEN TrimRight(SubSeq(s, 1, Len(s) - 1)) ELSE s

Trim(s) == TrimRight(TrimLeft(s))

\* index of the first c in s, 0 when there is none
RECURSIVE IndexOf(_, _, _)
IndexOf(s, c, from) ==
    IF from > Len(s) THEN 0
    ELSE IF s[from] = c THEN from ELSE IndexOf(s, c, from + 1)

\* content.replace(/<[^>]*>/g, ' ')
RECURSIVE ReplaceTags(_)
ReplaceTags(s) ==
    IF s = <<>> THEN <<>>
    ELSE IF Head(s) = "<" /\ IndexOf(s, ">", 2) # 0
         THEN <<" ">> \o ReplaceTags(SubSeq(s, IndexOf(s, ">", 2) + 1, Len(s)))
         ELSE <<Head(s)>> \o ReplaceTags(Tail(s))

\* plainText.replace(/\s/g, '')
RemoveSpaces(s) == SelectSeq(s, LAMBDA c : ~IsSpace(c))

\* s.split(/\s+/): the pieces between maximal runs of whitespace; the last
\* piece is `cur'.  An empty s yields the single piece ''.
RECURSIVE SplitSpaces(_, _, _)
SplitSpaces(s, cur, inGap) ==
    IF s = <<>> THEN <<cur>>
    ELSE IF IsSpace(Head(s))
         THEN IF inGap THEN SplitSpaces(Tail(s), cur, TRUE)
              ELSE <<cur>> \o SplitSpaces(Tail(s), <<>>, TRUE)
         ELSE SplitSpaces(Tail(s), Append(cur, Head(s)), FALSE)

Split(s) == SplitSpaces(s, <<>>, FALSE)

\* updateCounts that takes the whitespace out of the plain text before splitting
updateCounts_NoSeparators(content) ==
    IF ~Truthy(content) THEN [words |-> 0, chars |-> 0]
    ELSE LET plainText == RemoveSpaces(ReplaceTags(content.v))
             words == Split(Trim(plainText))
         IN  [words |-> IF Len(words) > 1 \/ (Len(words) = 1 /\ words[1] # <<>>)
                        THEN Len(words) ELSE 0,
              chars |-> Len(RemoveSpaces(plainText))]

\* updateCounts that counts the characters before the whitespace is removed
updateCounts_SpacesCounted(content) ==
    IF ~Truthy(content) THEN [words |-> 0, chars |-> 0]
    ELSE LET plainText == ReplaceTags(content.v)
             words == Split(Trim(plainText))
         IN  [words |-> IF Len(words) > 1 \/ (Len(words) = 1 /\ words[1] # <<>>)
                        THEN Len(words) ELSE 0,
              chars |-> Len(plainText)]

\* updateCounts without the test for the single empty piece
updateCounts_EmptyPieceCounted(content) ==
    IF ~Truthy(content) THEN [words |-> 0, chars |-> 0]
    ELSE LET plainText == ReplaceTags(content.v)
         IN  [words |-> Len(Split(Trim(plainText))),
              chars |-> Len(RemoveSpaces(plainText))]

\* updateCounts(content): the pair [words, chars] it stores
updateCounts(content) ==
    IF ~Truthy(content) THEN [words |-> 0, chars |-> 0]
    ELSE LET plainText == ReplaceTags(content.v)
             words == Split(Trim(plainText))
         IN  [words |-> IF Len(words) > 1 \/ (Len(words) = 1 /\ words[1] # <<>>)
                        THEN Len(words) ELSE 0,
              chars |-> Len(RemoveSpaces(plainText))]

-----------------------------------------------------------------------------
(* stripHTML: the text content of the markup parsed as HTML *)

Letters ==
    {"a","b","c","d","e","f","g","h","i","j","k","l","m","n","o","p","q","r",
     "s","t","u","v","w","x","y","z","A","B","C","D","E","F","G","H","I","J",
     "K","L","M","N","O","P","Q","R","S","T","U","V","W","X","Y","Z"}

\* tempElement.innerHTML = htmlString; tempElement.textContent.  The HTML
\* tokenizer opens a tag at "<" followed by a letter, "/", "!" or "?" and
\* drops everything up to the next ">" (up to the end of input when no ">"
\* follows); any other "<" is text.  "</" at the end of input is text.
RECURSIVE stripHTML(_)
stripHTML(s) ==
    IF s = <<>> THEN <<>>
    ELSE IF Head(s) = "<" /\ Len(s) >= 2
            /\ (s[2] \in Letters \cup {"!", "?"} \/ (s[2] = "/" /\ Len(s) >= 3))
         THEN IF IndexOf(s, ">", 2) = 0 THEN <<>>
              ELSE stripHTML(SubSeq(s, IndexOf(s, ">", 2) + 1, Len(s)))
         ELSE <<Head(s)>> \o stripHTML(Tail(s))

-----------------------------------------------------------------------------
(* JSON and cleanCitationData *)

\* { ...obj, key: val }: spreading null or undefined contributes no key
Put(obj, key, val) ==
    LET own == IF obj.t = "obj" THEN DOMAIN obj.v ELSE {}
    IN  JObj([k \in own \cup {key} |-> IF k = key THEN val ELSE obj.v[k]])

\* the value JSON.stringify writes: object keys holding undefined are left
\* out, undefined array elements become null
RECURSIVE JsonValue(_)
JsonValue(d) ==
    IF d.t = "arr"
    THEN JArr([i \in DOMAIN d.v |->
                 IF d.v[i].t = "undefined" THEN Null ELSE JsonValue(d.v[i])])
    ELSE IF d.t = "obj"
    THEN JObj([k \in {x \in DOMAIN d.v : d.v[x].t # "undefined"} |-> JsonValue(d.v[k])])
    ELSE d

\* JSON.stringify(value): a text, tagged with the value it denotes
JSONstringify(d) == [t |-> "json", v |-> JsonValue(d)]

\* JSON.parse(text) succeeds on the texts JSON.stringify wrote only
CanParse(text) == text.t = "json"
JSONparse(text) == text.v

\* const EXCLUDED_KEYS = ['showOptionalFields', 'showMetadata']
EXCLUDED_KEYS == {"showOptionalFields", "showMetadata"}

\* a cleanCitationData that cleans the keys of the outermost object only
cleanCitationData_TopLevelOnly(data) ==
    IF data.t = "obj"
    THEN JObj([k \in DOMAIN data.v \ EXCLUDED_KEYS |-> data.v[k]])
    ELSE data

RECURSIVE cleanCitationData(_)
cleanCitationData(data) ==
    IF data.t = "arr"
    THEN JArr([i \in DOMAIN data.v |-> cleanCitationData(data.v[i])])
    ELSE IF data.t = "obj"
    THEN JObj([k \in DOMAIN data.v \ EXCLUDED_KEYS |-> cleanCitationData(data.v[k])])
    ELSE data

-----------------------------------------------------------------------------
(* Durable storage *)

EDITOR_CONTENT == <<"e","d","i","t","o","r","C","o","n","t","e","n","t">>

\* `Citation${value}Form`: the key the dropdown emits and the forms save under
FormKey(value) == <<"C","i","t","a","t","i","o","n">> \o value \o <<"F","o","r","m">>

FORM_AUTO == <<"a","u","t","o">>
FORM_WEB == <<"w","e","b">>
FORM_SOURCE == <<"s","o","u","r","c","e">>

\* 'citationFormData': the key the forms read when they mount
CITATION_FORM_DATA == <<"c","i","t","a","t","i","o","n","F","o","r","m","D","a","t","a">>

StorageKeys == {EDITOR_CONTENT, FormKey(FORM_WEB), FormKey(FORM_SOURCE),
                CITATION_FORM_DATA}

\* localStorage.getItem(key): null for a key never written
getItem(key) == IF key \in DOMAIN localStorage THEN localStorage[key] ELSE Null

\* localStorage after setItem(key, text) and after removeItem(key)
setItem(store, key, text) == [store EXCEPT ![key] = text]
removeItem(store, key) == [store EXCEPT ![key] = Null]


\* String.prototype.toLowerCase on the letters
LowerLetters == <<"a","b","c","d","e","f","g","h","i","j","k","l","m",
                  "n","o","p","q","r","s","t","u","v","w","x","y","z">>
UpperLetters == <<"A","B","C","D","E","F","G","H","I","J","K","L","M",
                  "N","O","P","Q","R","S","T","U","V","W","X","Y","Z">>
toLowerCase(s) ==
    [i \in DOMAIN s |->
        IF \E j \in DOMAIN UpperLetters : UpperLetters[j] = s[i]
        THEN LowerLetters[CHOOSE j \in DOMAIN UpperLetters : UpperLetters[j] = s[i]]
        ELSE s[i]]

-----------------------------------------------------------------------------
(* Inputs *)

\* what the user types into the title field
Titles == {JStr(<<>>), JStr(<<" ">>), JStr(<<"T">>)}

\* what the editor view writes into editorContent
Markup == {JStr(<<>>), JStr(<<"<","p",">"," ","<","/","p",">">>), JStr(<<"<","p",">","A"," ","b","<","/","p",">">>)}

\* the citation formats of the style selector
Styles == {JStr(<<"A","P","A">>)}

\* the values of the source dropdown that are selected here (a form saved
\* under the third, 'source', is not part of this specification)
FormOptions == {FORM_AUTO, FORM_WEB}

\* response bodies of POST /citation/get_citation
ResultData(text, refs, score, srcs) ==
    JObj([result |-> JObj([formatted_text |-> JStr(text), references |-> JStr(refs)]),
          overall_score |-> JNum(score),
          sources |-> JArr(srcs)])

SourceS1 ==
    JObj([title |-> JStr(<<"S","1">>), url |-> JStr(<<"u">>),
          type |-> JStr(<<"a","r","t","i","c","l","e">>), credibility_score |-> JNum(95)])

\* a response: the request failed on the network, or came back with a status
OkResponses ==
    {[kind |-> "http", status |-> 200,
      data |-> ResultData(<<"<","p",">","A","<","/","p",">">>, <<"<","p",">","B","<","/","p",">">>, 82, <<SourceS1>>)],
     [kind |-> "http", status |-> 200,
      data |-> ResultData(<<"<","p",">","C"," ","d","<","/","p",">">>, <<"<","p",">","E","<","/","p",">">>, 40, <<>>)]}

FailedResponses ==
    {[kind |-> "network"],
     [kind |-> "http", status |-> 500, data |-> JObj([detail |-> JStr(<<"e">>)])],
     [kind |-> "http", status |-> 200, data |-> JObj([detail |-> JStr(<<"e">>)])]}

Responses == OkResponses \cup FailedResponses

\* the most requests the network holds
MaxInFlight == 2


-----------------------------------------------------------------------------
(* The web citation form *)

\* new Date().toISOString().split('T')[0]
Today == <<"2","0","2","6","-","1","1","-","0","3">>

\* sourceTemplate of CitationWebForm.vue
webSourceTemplate ==
    JObj([url |-> JStr(<<>>), authors |-> JStr(<<>>), title |-> JStr(<<>>),
          type |-> JStr(<<>>), publishedDate |-> JStr(Today),
          showOptionalFields |-> JBool(FALSE), doi |-> JStr(<<>>),
          volume |-> JStr(<<>>)])

\* sourceTemplate of CitationSourceForm.vue
sourceFormTemplate ==
    JObj([content |-> JStr(<<>>), title |-> JStr(<<>>), authors |-> JStr(<<>>),
          url |-> JStr(<<>>), type |-> JStr(<<>>), accessDate |-> JStr(Today),
          publishedDate |-> JStr(Today), showMetadata |-> JBool(FALSE)])

\* const maxSources = 5, the max-sources prop of both forms
maxSources == 5

\* useFormDataFormat(formType, sourceTemplate)
useFormDataFormat(formType, sourceTemplate) ==
    JObj([sources |-> JArr(<<sourceTemplate>>), citationStyle |-> JStr(<<>>),
          formType |-> JStr(formType)])

\* formData of the web form after setup: formData.value.supplementUrls is the
\* computed getSupplementUrls, which reads supplementUrls (false at setup)
webFormSetup ==
    Put(useFormDataFormat(FORM_WEB, webSourceTemplate), "supplementUrls", JBool(FALSE))

\* formData of the free-text form after setup
sourceFormSetup == useFormDataFormat(FORM_SOURCE, sourceFormTemplate)

\* onMounted of a form: a stored form of the form's type replaces formData
onMounted(formType, formData) ==
    LET storedFormData == getItem(CITATION_FORM_DATA)
    IN  IF /\ Truthy(storedFormData)
           /\ CanParse(storedFormData)
           /\ Get(JSONparse(storedFormData), "type") = JStr(formType)
        THEN JSONparse(storedFormData)
        ELSE formData

\* the form state of the source selector
FormVars == <<showWebForm, currentOpenOptionalFields, webFormData,
              supplementUrls, showSourceForm, sourceFormData>>

\* setup and onMounted of a source selector and its two forms.  The free-text
\* form is created when it is first shown and kept alive afterwards; nothing
\* it reads changes in between, so it is created here with the selector.
MountForms ==
    /\ showWebForm' = FALSE
    /\ showSourceForm' = FALSE
    /\ currentOpenOptionalFields' = Null
    /\ supplementUrls' = FALSE
    /\ webFormData' = onMounted(FORM_WEB, webFormSetup)
    /\ sourceFormData' = onMounted(FORM_SOURCE, sourceFormSetup)

\* a validateForm that accepts a form as soon as one source is complete
validateForm_SomeSource(formType, formData) ==
    \E i \in DOMAIN Get(formData, "sources").v :
        LET source == Get(formData, "sources").v[i]
            baseValidation == /\ Truthy(Get(source, "authors"))
                              /\ Truthy(Get(source, "title"))
                              /\ Truthy(Get(source, "sourceType"))
                              /\ Truthy(Get(source, "publishedDate"))
        IN  IF formType = FORM_WEB
            THEN baseValidation /\ Truthy(Get(source, "url"))
            ELSE baseValidation

\* validateForm() of useCitationFormActions(formType, formData)
validateForm(formType, formData) ==
    \A i \in DOMAIN Get(formData, "sources").v :
        LET source == Get(formData, "sources").v[i]
            baseValidation == /\ Truthy(Get(source, "authors"))
                              /\ Truthy(Get(source, "title"))
                              /\ Truthy(Get(source, "sourceType"))
                              /\ Truthy(Get(source, "publishedDate"))
        IN  IF formType = FORM_WEB
            THEN baseValidation /\ Truthy(Get(source, "url"))
            ELSE baseValidation

\* a save that skips validateForm
save_NoValidation(formType, formData, key) ==
    [storage |-> setItem(localStorage, key, JSONstringify(formData)), ok |-> TRUE]

\* save(key): the storage it leaves and the value it returns; a setItem that
\* throws is caught and reported as false
save(formType, formData, key) ==
    IF ~validateForm(formType, formData)
    THEN [storage |-> localStorage, ok |-> FALSE]
    ELSE IF quotaExceeded
    THEN [storage |-> localStorage, ok |-> FALSE]
    ELSE [storage |-> setItem(localStorage, key, JSONstringify(formData)), ok |-> TRUE]

\* formData.value.sources
Sources(formData) == Get(formData, "sources").v

\* the list without its entry at index: sources.splice(index, 1)
Splice(list, index) ==
    [i \in 1..(Len(list) - 1) |-> IF i < index THEN list[i] ELSE list[i + 1]]

\* a removeSource without the length check
removeSource_Unguarded(formData, index) ==
    Put(formData, "sources", JArr(Splice(Sources(formData), index)))

\* removeSource(index)
removeSource(formData, index) ==
    IF Len(Sources(formData)) > 1
    THEN Put(formData, "sources", JArr(Splice(Sources(formData), index)))
    ELSE formData

\* addSource(sourceTemplate)
addSource(formData, sourceTemplate) ==
    Put(formData, "sources", JArr(Append(Sources(formData), sourceTemplate)))

\* a maximum that ignores the supplement toggle
effectiveMaxSources_PropOnly == maxSources

\* computed effectiveMaxSources of the web form
effectiveMaxSources == IF supplementUrls THEN 3 ELSE maxSources

\* addNewSource() of a form with the given maximum
addNewSource(formData, sourceTemplate, max) ==
    IF Len(Sources(formData)) < max
    THEN Put(formData, "sources", JArr(Append(Sources(formData), sourceTemplate)))
    ELSE formData

\* formData.sources[i][key] = val
SetSourceField(formData, i, key, val) ==
    Put(formData, "sources",
        JArr([Get(formData, "sources").v EXCEPT ![i] = Put(@, key, val)]))


-----------------------------------------------------------------------------
(* The citation store *)

Flags == <<isCitationLoading, disableCiteMeBtn>>
Document == <<documentTitle, editorContent>>
Counts == <<wordCount, charCount>>
Result == <<previewContent, credibilityScore, sources>>
Chosen == <<selectedForm, citationStyle>>
SourceFormVars == <<showSourceForm, sourceFormData>>
WebFormVars == <<showWebForm, currentOpenOptionalFields, webFormData, supplementUrls>>
Failures == <<quotaExceeded, unhandledError>>
Sidebars == <<isLeftSidebarOpen, isRightSidebarOpen>>
Drawer == <<activeSourceType, showSourceDetails>>
Panels == <<Sidebars, Drawer>>

\* computed isPreviewMode
isPreviewMode == route = "/preview"

\* a watcher that keeps the stored entry and the counts of cleared content
watchEditorContent_KeepsEntry(newContent) ==
    IF ~Truthy(newContent)
    THEN UNCHANGED <<localStorage, wordCount, charCount, unhandledError>>
    ELSE /\ localStorage' = setItem(localStorage, EDITOR_CONTENT, newContent)
         /\ wordCount' = updateCounts(newContent).words
         /\ charCount' = updateCounts(newContent).chars
         /\ UNCHANGED unhandledError

\* watch(editorContent, (newContent) => ...): a setItem that throws ends the
\* callback before updateCounts, and nothing in the application catches it
watchEditorContent(newContent) ==
    IF ~Truthy(newContent)
    THEN /\ localStorage' = removeItem(localStorage, EDITOR_CONTENT)
         /\ wordCount' = 0
         /\ charCount' = 0
         /\ UNCHANGED unhandledError
    ELSE IF quotaExceeded
    THEN /\ unhandledError' = TRUE
         /\ UNCHANGED <<localStorage, wordCount, charCount>>
    ELSE /\ localStorage' = setItem(localStorage, EDITOR_CONTENT, newContent)
         /\ wordCount' = updateCounts(newContent).words
         /\ charCount' = updateCounts(newContent).chars
         /\ UNCHANGED unhandledError

\* editorContent.value = newContent: the watcher runs when the value changed
assignEditorContent(newContent) ==
    /\ editorContent' = newContent
    /\ IF newContent # editorContent
       THEN watchEditorContent(newContent)
       ELSE UNCHANGED <<localStorage, wordCount, charCount, unhandledError>>

\* watch(() => previewContent.value.content, (newContent) => ..., {deep: true})
watchPreviewContent(newContent) ==
    IF Len(newContent) = 0
    THEN /\ wordCount' = 0
         /\ charCount' = 0
    ELSE /\ wordCount' = updateCounts(newContent[1]).words
         /\ charCount' = updateCounts(newContent[1]).chars

\* router.push(path): leaving the editor route unmounts the source selector
\* (v-if="!store.isPreviewMode"), entering it mounts a fresh one
routerPush(path) ==
    /\ route' = path
    /\ IF path # route THEN MountForms ELSE UNCHANGED FormVars

navigateToEditor == routerPush("/editor")

\* a navigateToPreview that does not navigate
navigateToPreview_Stay == UNCHANGED <<route, FormVars>>

navigateToPreview == routerPush("/preview")

\* the heading as getCombinedContent of the preview toolbar writes it
ReferencesHeading_Newline == <<"<","h","2",">","R","e","f","e","r","e","n","c","e","s","<","/","h","2",">","\n">>

\* '<h2>References</h2>'
ReferencesHeading == <<"<","h","2",">","R","e","f","e","r","e","n","c","e","s","<","/","h","2",">">>

\* const [formattedText, reference] = previewContent.value.content
Element(array, i) == IF i <= Len(array) THEN array[i] ELSE Undefined

\* an editPreview that consumes the preview content
editPreview_ConsumesPreview ==
    /\ assignEditorContent(JStr(StringOf(Element(previewContent, 1))
                                \o ReferencesHeading
                                \o StringOf(Element(previewContent, 2))))
    /\ navigateToEditor
    /\ previewContent' = <<>>
    /\ UNCHANGED <<documentTitle, credibilityScore, sources, Flags, Chosen,
                   requests, toast, quotaExceeded, Panels>>

\* editPreview()
editPreview ==
    /\ assignEditorContent(JStr(StringOf(Element(previewContent, 1))
                                \o ReferencesHeading
                                \o StringOf(Element(previewContent, 2))))
    /\ navigateToEditor
    /\ UNCHANGED <<documentTitle, Result, Flags, Chosen, requests, toast,
                   quotaExceeded, Panels>>

\* a request body in which the fields of the form data win over the document
requestData_FormWins(formData, style) ==
    cleanCitationData(
        JObj([k \in DOMAIN Put(Put(Put(formData, "title", documentTitle),
                                   "content", editorContent),
                               "citationStyle", style).v |->
                 IF formData.t = "obj" /\ k \in DOMAIN formData.v THEN formData.v[k]
                 ELSE Put(Put(Put(formData, "title", documentTitle),
                              "content", editorContent),
                          "citationStyle", style).v[k]]))

\* the request body generateCitations builds from the form data
requestData(formData, style) ==
    cleanCitationData(
        Put(Put(Put(formData, "title", documentTitle), "content", editorContent),
            "citationStyle", style))

\* !documentTitle.value.trim(), without the trim
titleMissing_NoTrim == documentTitle.v = <<>>

\* !documentTitle.value.trim()
titleMissing == Trim(documentTitle.v) = <<>>

\* the comparison with 'citationautoform' without the toLowerCase
isAutoForm_CaseSensitive(form) == StringOf(form) = <<"c","i","t","a","t","i","o","n","a","u","t","o","f","o","r","m">>

\* String(selectedForm).toLowerCase() === 'citationautoform'
isAutoForm(form) == toLowerCase(StringOf(form)) = <<"c","i","t","a","t","i","o","n","a","u","t","o","f","o","r","m">>

\* !stripHTML(editorContent.value).trim()
contentMissing == Trim(stripHTML(editorContent.v)) = <<>>

\* finally { ... } that forgets the button
clearLoading_LoadingOnly ==
    /\ isCitationLoading' = FALSE
    /\ UNCHANGED disableCiteMeBtn

\* finally { isCitationLoading.value = false; disableCiteMeBtn.value = false }
clearLoading ==
    /\ isCitationLoading' = FALSE
    /\ disableCiteMeBtn' = FALSE

\* a catch block that also resets the preview
catchError_ResetsPreview ==
    /\ toast' = "Error generating citations. Please try again."
    /\ previewContent' = <<>>
    /\ UNCHANGED <<credibilityScore, sources, route, FormVars, Counts>>

\* catch (error) { console.error(...); toast.error(...) }
catchError ==
    /\ toast' = "Error generating citations. Please try again."
    /\ UNCHANGED <<Result, route, FormVars, Counts>>

\* generateCitations(selectedForm, citationStyle), up to the await
generateCitations(form, style) ==
    LET storedFormData == IF isAutoForm(form) THEN JObj([formType |-> JStr(FORM_AUTO)])
                          ELSE getItem(StringOf(form))
        isText == storedFormData.t \in {"str", "json"}
    IN  IF titleMissing
        THEN /\ toast' = "Document title is required"
             /\ UNCHANGED <<Flags, requests>>
        ELSE IF ~isAutoForm(form) /\ contentMissing
        THEN /\ toast' = "Please add some content to cite"
             /\ UNCHANGED <<Flags, requests>>
        ELSE IF ~isAutoForm(form) /\ ~Truthy(storedFormData)
        THEN /\ toast' = "Please select a citation source"
             /\ UNCHANGED <<Flags, requests>>
        ELSE IF isText /\ ~CanParse(storedFormData)
        THEN \* JSON.parse throws inside the try: catch, then finally
             /\ toast' = "Error generating citations. Please try again."
             /\ clearLoading
             /\ UNCHANGED requests
        ELSE /\ isCitationLoading' = TRUE
             /\ disableCiteMeBtn' = TRUE
             /\ requests' = Append(requests,
                    requestData(IF isText THEN JSONparse(storedFormData)
                                ELSE storedFormData, style))
             /\ UNCHANGED toast

\* axios resolves the promise for a 2xx status and rejects it otherwise
Fulfilled(response) ==
    response.kind = "http" /\ response.status >= 200 /\ response.status < 300

\* reading data.result.formatted_text throws unless data.result is an object
HasResult(response) == Get(response.data, "result").t = "obj"

\* a success path that keeps the formatted text only
commitResult_BodyOnly(data) ==
    /\ previewContent' = <<Get(Get(data, "result"), "formatted_text")>>
    /\ credibilityScore' = Get(data, "overall_score")
    /\ sources' = Get(data, "sources")
    /\ navigateToPreview
    /\ watchPreviewContent(previewContent')
    /\ UNCHANGED toast

\* the statements after the await: previewContent.value.content = [...],
\* credibilityScore, sources, navigateToPreview(), and the preview watcher
commitResult(data) ==
    /\ previewContent' = <<Get(Get(data, "result"), "formatted_text"),
                           Get(Get(data, "result"), "references")>>
    /\ credibilityScore' = Get(data, "overall_score")
    /\ sources' = Get(data, "sources")
    /\ navigateToPreview
    /\ watchPreviewContent(previewContent')
    /\ UNCHANGED toast

\* generateCitations after the await, on the response of the oldest request
resumeGenerateCitations(response) ==
    /\ IF Fulfilled(response) /\ HasResult(response)
       THEN commitResult(response.data)
       ELSE catchError
    /\ clearLoading

-----------------------------------------------------------------------------
(* Handlers of the pages and components *)

\* v-model="title" of the header input
InputTitle(title) ==
    /\ documentTitle' = title
    /\ UNCHANGED <<localStorage, editorContent, Counts, Result, route, Flags,
                   Chosen, requests, toast, FormVars, Failures, Panels>>

\* v-model:editorContent of the editor view
InputEditorContent(markup) ==
    /\ ~isPreviewMode
    /\ assignEditorContent(markup)
    /\ UNCHANGED <<documentTitle, Result, route, Flags, Chosen, requests, toast,
                   FormVars, quotaExceeded, Panels>>

\* selectOption(option) of the source dropdown, shown on the editor route:
\* option.action() of the option, then emits('optionSelected', ...)
selectOption(value) ==
    /\ ~isPreviewMode
    /\ selectedForm' = JStr(FormKey(value))
    /\ showWebForm' = IF value = FORM_WEB THEN TRUE ELSE showWebForm
    /\ showSourceForm' = IF value = FORM_SOURCE THEN TRUE ELSE showSourceForm
    /\ UNCHANGED <<localStorage, Document, Counts, Result, route, Flags,
                   citationStyle, requests, toast, currentOpenOptionalFields,
                   webFormData, supplementUrls, sourceFormData, Failures,
                   Panels>>

\* selectFormat(format.name) of the style selector
selectFormat(format) ==
    /\ citationStyle' = format
    /\ UNCHANGED <<localStorage, Document, Counts, Result, route, Flags,
                   selectedForm, requests, toast, FormVars, Failures, Panels>>

\* a toggleView that leaves the preview through the edit transformation
toggleView_Transforms ==
    IF isPreviewMode
    THEN editPreview
    ELSE /\ navigateToPreview
         /\ UNCHANGED <<localStorage, Document, Counts, Result, Flags, Chosen,
                        requests, toast, Failures, Panels>>

\* toggleView() of the header
toggleView ==
    /\ IF isPreviewMode THEN navigateToEditor ELSE navigateToPreview
    /\ UNCHANGED <<localStorage, Document, Counts, Result, Flags, Chosen,
                   requests, toast, Failures, Panels>>

\* Cite Me buttons that are never disabled
CiteMeDisabled_Never == FALSE

\* :disabled="disableBtn" of both Cite Me buttons
CiteMeDisabled == disableCiteMeBtn

\* @click="generateCitations" of an enabled Cite Me button
ClickCiteMe ==
    /\ ~CiteMeDisabled
    /\ Len(requests) < MaxInFlight
    /\ generateCitations(selectedForm, citationStyle)
    /\ UNCHANGED <<localStorage, Document, Counts, Result, route, Chosen, FormVars,
                   Failures, Panels>>

\* the response of the oldest pending request arrives
Respond(response) ==
    /\ requests # <<>>
    /\ requests' = Tail(requests)
    /\ resumeGenerateCitations(response)
    /\ UNCHANGED <<localStorage, Document, Chosen, Failures, Panels>>

\* the Edit button of the preview toolbar: emits('edit')
editContent ==
    /\ isPreviewMode
    /\ editPreview

\* toggleOptionalFields(index) of the web form
toggleOptionalFields(index) ==
    /\ ~isPreviewMode /\ showWebForm
    /\ index \in DOMAIN Get(webFormData, "sources").v
    /\ IF currentOpenOptionalFields = JNum(index)
       THEN /\ webFormData' = SetSourceField(webFormData, index, "showOptionalFields",
                  JBool(~Get(Get(webFormData, "sources").v[index],
                             "showOptionalFields").v))
            /\ UNCHANGED currentOpenOptionalFields
       ELSE /\ currentOpenOptionalFields' = JNum(index)
            /\ webFormData' = Put(webFormData, "sources",
                  JArr([i \in DOMAIN Get(webFormData, "sources").v |->
                          Put(Get(webFormData, "sources").v[i],
                              "showOptionalFields", JBool(i = index))]))
    /\ UNCHANGED <<localStorage, Document, Counts, Result, route, Flags, Chosen,
                   requests, toast, showWebForm, supplementUrls, SourceFormVars,
                   Failures, Panels>>

\* the inputs of one source: url always, the others while its panel is open
WebFieldShown(source, key) ==
    key = "url" \/ Get(source, "showOptionalFields").v

InputWebField(index, key, val) ==
    /\ ~isPreviewMode /\ showWebForm
    /\ index \in DOMAIN Get(webFormData, "sources").v
    /\ WebFieldShown(Get(webFormData, "sources").v[index], key)
    /\ webFormData' = SetSourceField(webFormData, index, key, val)
    /\ UNCHANGED <<localStorage, Document, Counts, Result, route, Flags, Chosen,
                   requests, toast, showWebForm, currentOpenOptionalFields,
                   supplementUrls, SourceFormVars, Failures, Panels>>

\* @save of the web form
SaveWebForm ==
    /\ ~isPreviewMode /\ showWebForm
    /\ LET formType == Get(webFormData, "formType").v
           saved == save(formType, webFormData, FormKey(formType))
       IN  /\ localStorage' = saved.storage
           /\ IF saved.ok
              THEN showWebForm' = FALSE /\ UNCHANGED toast
              ELSE toast' = "fill all required fields." /\ UNCHANGED showWebForm
    /\ UNCHANGED <<Document, Counts, Result, route, Flags, Chosen, requests,
                   currentOpenOptionalFields, webFormData, supplementUrls,
                   SourceFormVars, Failures, Panels>>

\* @discard of the web form
DiscardWebForm ==
    /\ ~isPreviewMode /\ showWebForm
    /\ showWebForm' = FALSE
    /\ UNCHANGED <<localStorage, Document, Counts, Result, route, Flags, Chosen,
                   requests, toast, currentOpenOptionalFields, webFormData,
                   supplementUrls, SourceFormVars, Failures, Panels>>

\* @click="supplementUrls = !supplementUrls", and watch(supplementUrls)
toggleSupplementUrls ==
    /\ ~isPreviewMode /\ showWebForm
    /\ supplementUrls' = ~supplementUrls
    /\ LET newValue == ~supplementUrls
           kept == IF newValue /\ Len(Sources(webFormData)) > 3
                   THEN SubSeq(Sources(webFormData), 1, 3)
                   ELSE Sources(webFormData)
       IN  webFormData' = Put(Put(webFormData, "sources", JArr(kept)),
                              "supplementUrls", JBool(newValue))
    /\ UNCHANGED <<localStorage, Document, Counts, Result, route, Flags, Chosen,
                   requests, toast, showWebForm, currentOpenOptionalFields,
                   SourceFormVars, Failures, Panels>>

\* @add="addNewSource" of the web form.  The add and remove buttons
\* (FormAddBtn.vue, FormRemoveBtn.vue) are taken to emit whenever clicked.
ClickAddWebSource ==
    /\ ~isPreviewMode /\ showWebForm
    /\ webFormData' = addNewSource(webFormData, webSourceTemplate, effectiveMaxSources)
    /\ UNCHANGED <<localStorage, Document, Counts, Result, route, Flags, Chosen,
                   requests, toast, showWebForm, currentOpenOptionalFields,
                   supplementUrls, SourceFormVars, Failures, Panels>>

\* @remove="removeSource(index)" of the web form
ClickRemoveWebSource(index) ==
    /\ ~isPreviewMode /\ showWebForm
    /\ index \in DOMAIN Sources(webFormData)
    /\ webFormData' = removeSource(webFormData, index)
    /\ UNCHANGED <<localStorage, Document, Counts, Result, route, Flags, Chosen,
                   requests, toast, showWebForm, currentOpenOptionalFields,
                   supplementUrls, SourceFormVars, Failures, Panels>>

\* toggleMetadata(index) of the free-text form
toggleMetadata(index) ==
    /\ ~isPreviewMode /\ showSourceForm
    /\ index \in DOMAIN Sources(sourceFormData)
    /\ sourceFormData' = SetSourceField(sourceFormData, index, "showMetadata",
           JBool(~Get(Sources(sourceFormData)[index], "showMetadata").v))
    /\ UNCHANGED <<localStorage, Document, Counts, Result, route, Flags, Chosen,
                   requests, toast, WebFormVars, showSourceForm, Failures,
                   Panels>>

\* the inputs of one free-text source: the content always, the others while
\* its metadata panel is open
SourceFieldShown(source, key) ==
    key = "content" \/ Get(source, "showMetadata").v

\* v-model="source.content" and the v-models of the metadata panel
InputSourceField(index, key, val) ==
    /\ ~isPreviewMode /\ showSourceForm
    /\ index \in DOMAIN Sources(sourceFormData)
    /\ SourceFieldShown(Sources(sourceFormData)[index], key)
    /\ sourceFormData' = SetSourceField(sourceFormData, index, key, val)
    /\ UNCHANGED <<localStorage, Document, Counts, Result, route, Flags, Chosen,
                   requests, toast, WebFormVars, showSourceForm, Failures,
                   Panels>>

\* @save of the free-text form
SaveSourceForm ==
    /\ ~isPreviewMode /\ showSourceForm
    /\ LET formType == Get(sourceFormData, "formType").v
           saved == save(formType, sourceFormData, FormKey(formType))
       IN  /\ localStorage' = saved.storage
           /\ IF saved.ok
              THEN showSourceForm' = FALSE /\ UNCHANGED toast
              ELSE toast' = "fill all required fields." /\ UNCHANGED showSourceForm
    /\ UNCHANGED <<Document, Counts, Result, route, Flags, Chosen, requests,
                   WebFormVars, sourceFormData, Failures, Panels>>

\* @discard of the free-text form
DiscardSourceForm ==
    /\ ~isPreviewMode /\ showSourceForm
    /\ showSourceForm' = FALSE
    /\ UNCHANGED <<localStorage, Document, Counts, Result, route, Flags, Chosen,
                   requests, toast, WebFormVars, sourceFormData, Failures,
                   Panels>>

\* @add="addNewSource" of the free-text form
ClickAddSource ==
    /\ ~isPreviewMode /\ showSourceForm
    /\ sourceFormData' = addNewSource(sourceFormData, sourceFormTemplate, maxSources)
    /\ UNCHANGED <<localStorage, Document, Counts, Result, route, Flags, Chosen,
                   requests, toast, WebFormVars, showSourceForm, Failures,
                   Panels>>

\* @remove="removeSource(index)" of the free-text form
ClickRemoveSource(index) ==
    /\ ~isPreviewMode /\ showSourceForm
    /\ index \in DOMAIN Sources(sourceFormData)
    /\ sourceFormData' = removeSource(sourceFormData, index)
    /\ UNCHANGED <<localStorage, Document, Counts, Result, route, Flags, Chosen,
                   requests, toast, WebFormVars, showSourceForm, Failures,
                   Panels>>

\* a toggleLeftSidebar that leaves the right sidebar as it is
toggleLeftSidebar_KeepsRight ==
    /\ isLeftSidebarOpen' = ~isLeftSidebarOpen
    /\ UNCHANGED isRightSidebarOpen
    /\ UNCHANGED <<localStorage, Document, Counts, Result, route, Flags, Chosen,
                   requests, toast, FormVars, Failures, Drawer>>

\* toggleLeftSidebar()
toggleLeftSidebar ==
    /\ isLeftSidebarOpen' = ~isLeftSidebarOpen
    /\ isRightSidebarOpen' = IF isLeftSidebarOpen' THEN FALSE ELSE isRightSidebarOpen
    /\ UNCHANGED <<localStorage, Document, Counts, Result, route, Flags, Chosen,
                   requests, toast, FormVars, Failures, Drawer>>

\* toggleRightSidebar()
toggleRightSidebar ==
    /\ isRightSidebarOpen' = ~isRightSidebarOpen
    /\ isLeftSidebarOpen' = IF isRightSidebarOpen' THEN FALSE ELSE isLeftSidebarOpen
    /\ UNCHANGED <<localStorage, Document, Counts, Result, route, Flags, Chosen,
                   requests, toast, FormVars, Failures, Drawer>>

\* source.type?.trim().toLowerCase()
sourceType(source) ==
    IF Get(source, "type").t \in {"undefined", "null"} THEN Undefined
    ELSE JStr(toLowerCase(Trim(Get(source, "type").v)))

PeerReviewed == JStr(<<"p","e","e","r"," ","r","e","v","i","e","w","e","d">>)
Article == JStr(<<"a","r","t","i","c","l","e">>)
Website == JStr(<<"w","e","b","s","i","t","e">>)
Blog == JStr(<<"b","l","o","g">>)

\* computed academicSource of the right sidebar
academicSource ==
    SelectSeq(sources.v, LAMBDA source : sourceType(source) \in {PeerReviewed, Article})

\* computed webSource
webSource ==
    SelectSeq(sources.v, LAMBDA source : sourceType(source) \in {Website, Blog})

\* an otherSource that does not leave out the blogs
otherSource_WithBlogs ==
    SelectSeq(sources.v, LAMBDA source :
                  sourceType(source) \notin {PeerReviewed, Article, Website})

\* computed otherSource
otherSource ==
    SelectSeq(sources.v, LAMBDA source :
                  sourceType(source) \notin {PeerReviewed, Article, Website, Blog})

\* computed getSourcesByType
getSourcesByType ==
    [academic |-> academicSource, web |-> webSource, other |-> otherSource]

\* :sources="getSourcesByType[activeSourceType] || []" of the drawer
drawerSources ==
    IF activeSourceType.t = "str" /\ activeSourceType.v \in DOMAIN getSourcesByType
    THEN getSourcesByType[activeSourceType.v]
    ELSE <<>>

\* reduce((acc, source) => acc + (source.credibility_score || 0), 0)
RECURSIVE reduceCredibility(_, _)
reduceCredibility(group, acc) ==
    IF group = <<>> THEN acc
    ELSE reduceCredibility(Tail(group),
            acc + (IF Truthy(Get(Head(group), "credibility_score"))
                   THEN Get(Head(group), "credibility_score").v ELSE 0))

\* academicSourceCredibility, webSourceCredibility, otherSourceCredibility of
\* the source analysis: 0 for no source, else the sum divided by the length;
\* the quotient is kept as its numerator and denominator
sourceCredibility(group) ==
    IF Len(group) = 0 THEN [num |-> 0, den |-> 1]
    ELSE [num |-> reduceCredibility(group, 0), den |-> Len(group)]

\* the status badge of a card of the source analysis
statusBadge(group) == IF Len(group) > 0 THEN "verified" ELSE "unverified"

\* the cards of the source analysis and the type each emits when clicked
SourceCards == {"academic", "web", "other"}
emittedType(card) == IF card = "other" THEN "others" ELSE card

\* openSourceDetails(type) of the right sidebar
openSourceDetails(type) ==
    /\ activeSourceType' = JStr(type)
    /\ showSourceDetails' = TRUE
    /\ UNCHANGED <<localStorage, Document, Counts, Result, route, Flags, Chosen,
                   requests, toast, FormVars, Failures, Sidebars>>

\* @click="emit('openSourceDetails', ...)" of a card of the source analysis,
\* which the right sidebar shows while it is open
ClickSourceCard(card) ==
    /\ isRightSidebarOpen
    /\ openSourceDetails(emittedType(card))

\* closeSourceDetails(), on the close button of the drawer
closeSourceDetails ==
    /\ isRightSidebarOpen
    /\ showSourceDetails
    /\ showSourceDetails' = FALSE
    /\ activeSourceType' = Null
    /\ UNCHANGED <<localStorage, Document, Counts, Result, route, Flags, Chosen,
                   requests, toast, FormVars, Failures, Sidebars>>

\* the browser starts to refuse writes (the quota is used up) and accepts
\* them again
SetQuotaExceeded(full) ==
    /\ quotaExceeded # full
    /\ quotaExceeded' = full
    /\ UNCHANGED <<localStorage, Document, Counts, Result, route, Flags, Chosen,
                   requests, toast, FormVars, unhandledError, Panels>>

-----------------------------------------------------------------------------
(* The specification *)

\* the keys and values typed into a web source
WebInputKeys == {"url", "authors", "title", "sourceType"}

\* the keys typed into a free-text source
SourceInputKeys == {"content", "authors", "title", "sourceType"}

\* the values of the source dropdown selected with the free-text form
SourceOptions == {FORM_AUTO, FORM_SOURCE}
FieldValues == {JStr(<<>>), JStr(<<"x">>)}

\* the markup strings updateCounts is tried on: every text of at most
\* MaxMarkupLen characters over a letter, a space and the two tag delimiters
MaxMarkupLen == 4
MarkupAlphabet == {"a", " ", "<", ">"}
MarkupStrings == UNION {[1..n -> MarkupAlphabet] : n \in 0..MaxMarkupLen}

\* the values cleanCitationData is tried on: objects with the keys a,
\* showOptionalFields and b, where b holds a primitive, an inner object or an
\* array of at most MaxArrayLen of those; Undefined stands for a key that the
\* object does not have
MaxArrayLen == 1
CleanLeaves == {JNum(1), JNum(2), Null}
CleanInnerObject(c, m) ==
    JObj([k \in {x \in {"c", "showMetadata"} :
                    (IF x = "c" THEN c ELSE m) # Undefined} |->
             IF k = "c" THEN c ELSE m])
CleanInner ==
    {CleanInnerObject(c, m) : c \in {JNum(2), Null, Undefined},
                              m \in {JBool(FALSE), Undefined}}
CleanArrays ==
    {JArr(a) : a \in UNION {[1..n -> CleanLeaves \cup CleanInner] : n \in 0..MaxArrayLen}}
CleanObject(a, s, b) ==
    JObj([k \in {x \in {"a", "showOptionalFields", "b"} :
                    (IF x = "a" THEN a ELSE IF x = "b" THEN b ELSE s) # Undefined} |->
             IF k = "a" THEN a ELSE IF k = "b" THEN b ELSE s])
CleanInputs ==
    {CleanObject(a, s, b) :
        a \in CleanLeaves \cup {Undefined},
        s \in {JBool(TRUE), Undefined},
        b \in CleanLeaves \cup CleanInner \cup CleanArrays \cup {Undefined}}

\* {a: 1, showOptionalFields: true, b: [{showMetadata: false, c: 2}]}
CleanExample ==
    JObj([a |-> JNum(1), showOptionalFields |-> JBool(TRUE),
          b |-> JArr(<<JObj([showMetadata |-> JBool(FALSE), c |-> JNum(2)])>>)])

\* the sources of a form that are typed into
MaxFormSources == 1

\* the sources of a web form whose optional fields are opened and closed
MaxPanels == 2

\* the web forms an earlier session may have saved: every required field of
\* the one source typed in, its panel open or closed again
SavedWebForms ==
    {SetSourceField(
        SetSourceField(
          SetSourceField(
            SetSourceField(
              SetSourceField(webFormSetup,
                             1, "url", JStr(<<"x">>)),
              1, "authors", JStr(<<"x">>)),
            1, "title", JStr(<<"x">>)),
          1, "sourceType", JStr(<<"x">>)),
        1, "showOptionalFields", JBool(TRUE))}

Init ==
    /\ localStorage \in
          {[k \in StorageKeys |->
               IF k = EDITOR_CONTENT THEN e
               ELSE IF k = FormKey(FORM_WEB) THEN w ELSE Null] :
              e \in {Null} \cup {m \in Markup : Truthy(m)},
              w \in {Null} \cup {JSONstringify(f) : f \in SavedWebForms}}
    /\ documentTitle = JStr(<<>>)
    /\ editorContent = (IF Truthy(getItem(EDITOR_CONTENT))
                        THEN getItem(EDITOR_CONTENT) ELSE JStr(<<>>))
    /\ credibilityScore = JNum(0)
    /\ sources = JArr(<<>>)
    /\ wordCount = 0
    /\ charCount = 0
    /\ previewContent = <<>>
    /\ route \in {"/editor", "/preview"}
    /\ isCitationLoading = FALSE
    /\ disableCiteMeBtn = FALSE
    /\ selectedForm = Undefined
    /\ citationStyle = Undefined
    /\ requests = <<>>
    /\ toast = "none"
    /\ showWebForm = FALSE
    /\ currentOpenOptionalFields = Null
    /\ webFormData = webFormSetup
    /\ supplementUrls = FALSE
    /\ showSourceForm = FALSE
    /\ sourceFormData = sourceFormSetup
    /\ quotaExceeded = FALSE
    /\ unhandledError = FALSE
    /\ isLeftSidebarOpen = FALSE
    /\ isRightSidebarOpen = TRUE
    /\ activeSourceType = Null
    /\ showSourceDetails = FALSE

\* the initial state in the editor view, with some content in the editor and
\* any of the values of CleanInputs under the web form's key
CleanInit ==
    /\ localStorage \in
          {[k \in StorageKeys |->
               IF k = EDITOR_CONTENT THEN JStr(<<"<","p",">","A"," ","b","<","/","p",">">>)
               ELSE IF k = FormKey(FORM_WEB) THEN JSONstringify(d) ELSE Null] :
              d \in CleanInputs}
    /\ documentTitle = JStr(<<>>)
    /\ editorContent = getItem(EDITOR_CONTENT)
    /\ credibilityScore = JNum(0)
    /\ sources = JArr(<<>>)
    /\ wordCount = 0
    /\ charCount = 0
    /\ previewContent = <<>>
    /\ route = "/editor"
    /\ isCitationLoading = FALSE
    /\ disableCiteMeBtn = FALSE
    /\ selectedForm = Undefined
    /\ citationStyle = Undefined
    /\ requests = <<>>
    /\ toast = "none"
    /\ showWebForm = FALSE
    /\ currentOpenOptionalFields = Null
    /\ webFormData = webFormSetup
    /\ supplementUrls = FALSE
    /\ showSourceForm = FALSE
    /\ sourceFormData = sourceFormSetup
    /\ quotaExceeded = FALSE
    /\ unhandledError = FALSE
    /\ isLeftSidebarOpen = FALSE
    /\ isRightSidebarOpen = TRUE
    /\ activeSourceType = Null
    /\ showSourceDetails = FALSE

\* the handlers of the header, the editor and preview views and the network
Next ==
    \/ \E title \in Titles : InputTitle(title)
    \/ \E markup \in Markup : InputEditorContent(markup)
    \/ \E value \in FormOptions : selectOption(value)
    \/ \E format \in Styles : selectFormat(format)
    \/ toggleView
    \/ ClickCiteMe
    \/ \E response \in Responses : Respond(response)
    \/ editContent

\* the handlers of the web form, and the view toggle that unmounts and
\* mounts it
FormNext ==
    \/ \E value \in FormOptions : selectOption(value)
    \/ \E index \in 1..MaxPanels : toggleOptionalFields(index)
    \/ \E index \in 1..MaxFormSources, key \in WebInputKeys, val \in FieldValues :
          InputWebField(index, key, val)
    \/ SaveWebForm
    \/ DiscardWebForm
    \/ toggleSupplementUrls
    \/ ClickAddWebSource
    \/ \E index \in 1..maxSources : ClickRemoveWebSource(index)
    \/ toggleView

\* the editor view writing any markup of the alphabet into editorContent
CountsNext == \E markup \in MarkupStrings : InputEditorContent(JStr(markup))

\* the handlers that lead to a request
CleanNext ==
    \/ \E title \in Titles : InputTitle(title)
    \/ \E value \in FormOptions : selectOption(value)
    \/ ClickCiteMe
    \/ \E response \in Responses : Respond(response)

\* the handlers of the free-text form, and the view toggle
SourceFormNext ==
    \/ \E value \in SourceOptions : selectOption(value)
    \/ \E index \in 1..MaxFormSources : toggleMetadata(index)
    \/ \E index \in 1..MaxFormSources, key \in SourceInputKeys, val \in FieldValues :
          InputSourceField(index, key, val)
    \/ SaveSourceForm
    \/ DiscardSourceForm
    \/ ClickAddSource
    \/ \E index \in 1..maxSources : ClickRemoveSource(index)
    \/ toggleView

\* the handlers of the main page with a web form that is typed into
PendingNext ==
    \/ Next
    \/ \E val \in FieldValues : InputWebField(1, "url", val)

\* the sources a response reports: up to MaxSources records, of an academic,
\* a web and another type and of no type, with a score
MaxSources == 2
SourceRecord(type, score) ==
    JObj([title |-> JStr(<<"S">>), url |-> JStr(<<"u">>), type |-> JStr(type),
          credibility_score |-> JNum(score)])
SourceRecords ==
    {SourceRecord(<<" ","A","r","t","i","c","l","e">>, 95),
     SourceRecord(<<"B","l","o","g">>, 95),
     SourceRecord(<<"B","l","o","g">>, 40),
     SourceRecord(<<"b","o","o","k">>, 40),
     JObj([title |-> JStr(<<"S">>), url |-> JStr(<<"u">>),
           credibility_score |-> JNum(40)])}
SourceLists == UNION {[1..n -> SourceRecords] : n \in 0..MaxSources}
SourceResponses ==
    {[kind |-> "http", status |-> 200,
      data |-> ResultData(<<"<","p",">","A","<","/","p",">">>,
                          <<"<","p",">","B","<","/","p",">">>, 82, srcs)] :
        srcs \in SourceLists}

\* a session that starts in the editor with nothing stored
PanelsInit ==
    /\ Init
    /\ route = "/editor"
    /\ \A k \in StorageKeys : localStorage[k] = Null

\* the handlers of the sidebars and of the source analysis, with the
\* requests that fill the sources
PanelsNext ==
    \/ InputTitle(JStr(<<"T">>))
    \/ selectOption(FORM_AUTO)
    \/ ClickCiteMe
    \/ \E response \in SourceResponses : Respond(response)
    \/ toggleLeftSidebar
    \/ toggleRightSidebar
    \/ \E card \in SourceCards : ClickSourceCard(card)
    \/ closeSourceDetails

\* the handlers that write durable storage, with a browser that may refuse
QuotaNext ==
    \/ \E markup \in Markup : InputEditorContent(markup)
    \/ \E value \in FormOptions : selectOption(value)
    \/ \E index \in 1..MaxFormSources : toggleOptionalFields(index)
    \/ \E index \in 1..MaxFormSources, key \in WebInputKeys, val \in FieldValues :
          InputWebField(index, key, val)
    \/ SaveWebForm
    \/ \E full \in BOOLEAN : SetQuotaExceeded(full)

Spec == Init /\ [][Next]_vars

FormSpec == Init /\ [][FormNext]_vars

SourceFormSpec == Init /\ [][SourceFormNext]_vars

CountsSpec == Init /\ [][CountsNext]_vars

CleanSpec == CleanInit /\ [][CleanNext]_vars

PanelsSpec == PanelsInit /\ [][PanelsNext]_vars

PendingSpec == Init /\ [][PendingNext]_vars

QuotaSpec == Init /\ [][QuotaNext]_vars


\* the request of a call eventually resolves or fails: the browser ends every
\* HTTP exchange, and the continuation of the await then runs
LiveSpec == Spec /\ WF_vars(\E response \in Responses : Respond(response))

-----------------------------------------------------------------------------
(* Reference definitions the properties are stated with *)

\* words and characters of a text, counted directly: a word starts at every
\* character that is not whitespace and follows whitespace or nothing
RECURSIVE WordStarts(_, _)
WordStarts(s, afterSpace) ==
    IF s = <<>> THEN 0
    ELSE (IF ~IsSpace(Head(s)) /\ afterSpace THEN 1 ELSE 0)
         + WordStarts(Tail(s), IsSpace(Head(s)))

RECURSIVE NonSpaces(_)
NonSpaces(s) ==
    IF s = <<>> THEN 0
    ELSE (IF IsSpace(Head(s)) THEN 0 ELSE 1) + NonSpaces(Tail(s))

RefWords(content) ==
    IF content.t # "str" THEN 0 ELSE WordStarts(ReplaceTags(content.v), TRUE)
RefChars(content) ==
    IF content.t # "str" THEN 0 ELSE NonSpaces(ReplaceTags(content.v))

\* the counts w and c are those of content
CountsAre(w, c, content) == w = RefWords(content) /\ c = RefChars(content)

\* a step in which the response of a request is handled
SuccessStep == \E response \in OkResponses : Respond(response)
FailureStep == \E response \in FailedResponses : Respond(response)

\* the texts of the two successful responses
TextA == JStr(<<"<","p",">","A","<","/","p",">">>)
TextB == JStr(<<"<","p",">","B","<","/","p",">">>)
TextCD == JStr(<<"<","p",">","C"," ","d","<","/","p",">">>)
TextE == JStr(<<"<","p",">","E","<","/","p",">">>)

GenericError == "Error generating citations. Please try again."

-----------------------------------------------------------------------------
(* C1 *)

\* C1 as stated: in every reachable state wordCount and charCount are the
\* counts of the current editorContent.
C1_CountsOfEditorContent == CountsAre(wordCount, charCount, editorContent)

\* C1 amended: the counts are 0 in the initial state; a step that changes
\* editorContent sets them to the counts of the new editorContent, a
\* successful response sets them to the counts of the formatted body put
\* into the preview, and no other step changes them.
C1_CountsFollowLastWrite ==
    /\ wordCount = 0 /\ charCount = 0
    /\ [][/\ editorContent' # editorContent
               => CountsAre(wordCount', charCount', editorContent')
          /\ SuccessStep => CountsAre(wordCount', charCount', previewContent'[1])
          /\ Counts' # Counts => editorContent' # editorContent \/ SuccessStep]_vars

\* the preview holds a generated body, and the counts are the body's and not
\* the editor content's
C1_Witness ==
    /\ previewContent = <<TextCD, TextE>>
    /\ editorContent = JStr(<<"<","p",">"," ","<","/","p",">">>)
    /\ wordCount = 2 /\ charCount = 2


-----------------------------------------------------------------------------
(* C2 *)

\* what a generation call must not commit when its request fails
Committed == <<editorContent, documentTitle, previewContent, credibilityScore,
               sources, route, localStorage>>

\* C2: the steps of a generateCitations call whose request fails (the call
\* up to the await, and the handling of a network error, of a non-2xx status
\* and of a response without a result) leave editorContent, documentTitle,
\* previewContent.content, credibilityScore, sources, the view mode and
\* durable storage unchanged.
C2_FailureCommitsNothing ==
    [][(ClickCiteMe \/ FailureStep) => UNCHANGED Committed]_vars

\* a request failed after a first one had filled the preview: the first
\* result is still there
C2_Witness ==
    /\ toast = GenericError
    /\ requests = <<>>
    /\ previewContent = <<TextA, TextB>>
    /\ credibilityScore = JNum(82)

-----------------------------------------------------------------------------
(* C3 *)

\* C3: handling a successful response with result.formatted_text = X,
\* result.references = Y, overall_score = s and sources = L leaves
\* previewContent.content = [X, Y], credibilityScore = s, sources = L and the
\* view on Preview.
C3_SuccessFillsPreview ==
    [][\A response \in OkResponses :
          Respond(response) =>
             /\ previewContent' = <<response.data.v.result.v.formatted_text,
                                    response.data.v.result.v.references>>
             /\ credibilityScore' = response.data.v.overall_score
             /\ sources' = response.data.v.sources
             /\ route' = "/preview"]_vars

\* the scenario of the specification, with the texts of the first response
C3_Witness ==
    /\ previewContent = <<TextA, TextB>>
    /\ credibilityScore = JNum(82)
    /\ sources = JArr(<<SourceS1>>)
    /\ route = "/preview"
    /\ ~isCitationLoading

-----------------------------------------------------------------------------
(* C4 *)

\* C4: at most one citation-generation request is in flight at any time.
C4_OneRequestInFlight == Len(requests) <= 1

\* a request is pending, the triggers are disabled and the user has edited
\* the document and toggled the view since it was sent
C4_Witness ==
    /\ Len(requests) = 1
    /\ disableCiteMeBtn
    /\ Get(requests[1], "content") # editorContent
    /\ route = "/preview"

-----------------------------------------------------------------------------
(* C5 *)

\* C5: the loading flag and the disable flag are set exactly while a request
\* of generateCitations is pending (so never after a validation
\* short-circuit, and cleared after success and after failure), and a set
\* flag is eventually cleared.
C5_LoadingFlag ==
    /\ [](/\ isCitationLoading = disableCiteMeBtn
          /\ isCitationLoading <=> (requests # <<>>))
    /\ [][ClickCiteMe /\ toast' # toast => ~isCitationLoading']_vars
    /\ (isCitationLoading ~> ~isCitationLoading)

\* a call was rejected for its content after an earlier call had succeeded:
\* the flag is clear
C5_Witness ==
    /\ ~isCitationLoading /\ ~disableCiteMeBtn
    /\ toast = "Please add some content to cite"
    /\ previewContent # <<>>

-----------------------------------------------------------------------------
(* C6 *)

\* C6: with an empty or whitespace-only title a Cite Me click sends no
\* request and leaves the loading flags clear, whatever the content, the
\* selected form and the stored form data are.
C6_BlankTitleRejected ==
    [][ClickCiteMe /\ (\A i \in DOMAIN documentTitle.v : IsSpace(documentTitle.v[i]))
          => /\ requests' = requests
             /\ ~isCitationLoading' /\ ~disableCiteMeBtn'
             /\ toast' = "Document title is required"]_vars

\* rejected with a whitespace title although the auto form is selected and
\* the document has text
C6_Witness ==
    /\ toast = "Document title is required"
    /\ documentTitle = JStr(<<" ">>)
    /\ selectedForm = JStr(FormKey(FORM_AUTO))
    /\ editorContent = JStr(<<"<","p",">","A"," ","b","<","/","p",">">>)
    /\ requests = <<>>


-----------------------------------------------------------------------------
(* C7 *)

\* the selected form is the auto variant: the dropdown emitted its key
AutoSelected == selectedForm = JStr(FormKey(FORM_AUTO))

\* durable storage has no entry under the selected form key
NoStoredForm ==
    \/ selectedForm.t # "str"
    \/ selectedForm.v \notin StorageKeys
    \/ localStorage[selectedForm.v] = Null

\* C7: with a title that is not blank, a Cite Me click with a form other
\* than the auto variant sends no request if the tag-stripped editor content
\* is empty or if durable storage has no entry under the selected form key;
\* with the auto variant it sends a request whose body has formType 'auto'
\* (and the current title and content, and no form sources), whatever the
\* content and the storage are.
C7_FormChecks ==
    [][ClickCiteMe /\ (\E i \in DOMAIN documentTitle.v : ~IsSpace(documentTitle.v[i]))
          => IF AutoSelected
             THEN /\ Len(requests') = Len(requests) + 1
                  /\ Get(requests'[Len(requests')], "formType") = JStr(FORM_AUTO)
                  /\ Get(requests'[Len(requests')], "sources") = Undefined
                  /\ Get(requests'[Len(requests')], "title") = documentTitle
                  /\ Get(requests'[Len(requests')], "content") = editorContent
             ELSE (stripHTML(editorContent.v) = <<>> \/ NoStoredForm)
                     => requests' = requests /\ toast' # toast]_vars

\* an auto request went out although the document is empty and no form is
\* stored
C7_Witness ==
    /\ Len(requests) = 1
    /\ Get(requests[1], "formType") = JStr(FORM_AUTO)
    /\ Get(requests[1], "content") = JStr(<<>>)
    /\ localStorage[FormKey(FORM_WEB)] = Null

-----------------------------------------------------------------------------
(* C8 *)

\* C8 as stated: after the edit action PreviewState.content is empty.
C8_EditEmptiesPreview == [][editContent => previewContent' = <<>>]_vars

\* C8 amended: the edit action leaves PreviewState.content as it was (it
\* copies the preview into the editor content and keeps the preview), so a
\* filled preview is still filled after the edit.
C8_EditKeepsPreview == [][editContent => previewContent' = previewContent]_vars

\* after the edit of the second response's preview: the editor holds the
\* combined text and the preview still holds its two parts
C8_Witness ==
    /\ route = "/editor"
    /\ previewContent = <<TextCD, TextE>>
    /\ editorContent = JStr(TextCD.v \o <<"<","h","2",">","R","e","f","e","r","e","n","c","e","s","<","/","h","2",">">> \o TextE.v)

-----------------------------------------------------------------------------
(* C9 *)

\* C9: PreviewState.content always has 0 or 2 elements, the formatted body
\* and the references of one successful response; it is empty initially and
\* only the handling of a successful response changes it.
C9_PreviewShape ==
    /\ previewContent = <<>>
    /\ [](/\ Len(previewContent) \in {0, 2}
          /\ previewContent # <<>> =>
                \E response \in OkResponses :
                   /\ previewContent[1] = response.data.v.result.v.formatted_text
                   /\ previewContent[2] = response.data.v.result.v.references)
    /\ [][previewContent' # previewContent => SuccessStep]_vars

\* the preview of a first generation is kept while a second call is pending
\* and the user is back in the editor
C9_Witness ==
    /\ Len(previewContent) = 2
    /\ route = "/editor"
    /\ isCitationLoading
    /\ toast = GenericError

-----------------------------------------------------------------------------
(* C10 *)

-----------------------------------------------------------------------------
(* C11 *)

\* C11: the view toggle changes the view and nothing of the document or the
\* preview, and reports no error, also when the preview is empty; the
\* arrival of a response leaves editorContent unchanged; and editorContent
\* changes only in a step of the edit action or of typing in the editor.
C11_OnlyEditTransforms ==
    [][/\ toggleView =>
            /\ editorContent' = editorContent
            /\ previewContent' = previewContent
            /\ route' = (IF isPreviewMode THEN "/editor" ELSE "/preview")
            /\ toast' = toast
            /\ unhandledError' = unhandledError
       /\ (\E response \in Responses : Respond(response)) =>
            editorContent' = editorContent
       /\ editorContent' # editorContent =>
            \/ editContent
            \/ \E markup \in Markup : InputEditorContent(markup)]_vars

\* the preview was toggled to after a source was selected in the editor view,
\* and it is empty
C11_Witness ==
    /\ route = "/preview"
    /\ previewContent = <<>>
    /\ selectedForm # Undefined
    /\ toast = "none"

-----------------------------------------------------------------------------
(* C12 *)

\* C12: the successful response of a pending request writes
\* previewContent.content, credibilityScore and sources and switches to
\* Preview from whichever view the user is in, and it leaves editorContent,
\* the stored forms and the data of the form the user is filling in as they
\* were changed in the meantime.
C12_ResponseKeepsEdits ==
    [][\A response \in OkResponses :
          Respond(response) =>
             /\ previewContent' = <<response.data.v.result.v.formatted_text,
                                    response.data.v.result.v.references>>
             /\ credibilityScore' = response.data.v.overall_score
             /\ sources' = response.data.v.sources
             /\ route' = "/preview"
             /\ editorContent' = editorContent
             /\ localStorage' = localStorage
             /\ webFormData' = webFormData]_vars

\* the same without the data of the form that is being filled in
C12_ResponseKeepsDocument ==
    [][\A response \in OkResponses :
          Respond(response) =>
             /\ previewContent' = <<response.data.v.result.v.formatted_text,
                                    response.data.v.result.v.references>>
             /\ credibilityScore' = response.data.v.overall_score
             /\ sources' = response.data.v.sources
             /\ route' = "/preview"
             /\ editorContent' = editorContent
             /\ localStorage' = localStorage]_vars

-----------------------------------------------------------------------------
(* C13 *)

\* C13: save(key) of a form that fails validateForm() returns false and leaves
\* durable storage unchanged (the form stays open and reports the failure);
\* save(key) of a form that passes writes under key a text that parses back
\* to the whole form, leaves the other keys alone and returns true (the form
\* closes).
C13_SaveValidatedFormOnly ==
    [][SaveWebForm =>
          LET key == FormKey(FORM_WEB)
          IN  IF validateForm(FORM_WEB, webFormData)
              THEN /\ save(FORM_WEB, webFormData, key).ok
                   /\ CanParse(localStorage'[key])
                   /\ JSONparse(localStorage'[key]) = webFormData
                   /\ \A k \in StorageKeys \ {key} : localStorage'[k] = localStorage[k]
                   /\ ~showWebForm'
              ELSE /\ ~save(FORM_WEB, webFormData, key).ok
                   /\ localStorage' = localStorage
                   /\ showWebForm'
                   /\ toast' = "fill all required fields."]_vars

\* a save was refused, and a later one stored the form with the supplement
\* flag set
C13_Witness ==
    /\ toast = "fill all required fields."
    /\ localStorage[FormKey(FORM_WEB)] # Null
    /\ Get(JSONparse(localStorage[FormKey(FORM_WEB)]), "supplementUrls") = JBool(TRUE)
    /\ ~showWebForm

-----------------------------------------------------------------------------
(* C14 *)

\* the fields every source needs, and the one more a web source needs
RequiredFields(formType) ==
    {"authors", "title", "sourceType", "publishedDate"}
        \cup (IF formType = FORM_WEB THEN {"url"} ELSE {})

\* the source has no value, or the empty string, under the key
Lacks(source, key) ==
    \/ key \notin DOMAIN source.v
    \/ source.v[key] = JStr(<<>>)

\* C14: for the web and for the free-text variant, validateForm() is false
\* exactly if some source of the form lacks a non-empty authors, title,
\* sourceType or publishedDate, or, for the web variant only, a non-empty url.
C14_ValidateIff ==
    \A formType \in {FORM_WEB, FORM_SOURCE} :
       \A formData \in {webFormData, sourceFormData} :
          validateForm(formType, formData) =
             ~(\E i \in DOMAIN Sources(formData) :
                  \E key \in RequiredFields(formType) :
                     Lacks(Sources(formData)[i], key))

\* a form of two sources whose first source has every base field and no url:
\* valid without its second source as a free-text form, never as a web form
C14_Witness ==
    /\ Len(Sources(webFormData)) = 2
    /\ ~validateForm(FORM_SOURCE, webFormData)
    /\ validateForm(FORM_SOURCE, removeSource(webFormData, 2))
    /\ ~validateForm(FORM_WEB, removeSource(webFormData, 2))

-----------------------------------------------------------------------------
(* C15 *)

\* C15: every free-text form held in durable storage has a non-empty content
\* in each of its sources.
C15_StoredContentNonEmpty ==
    LET stored == localStorage[FormKey(FORM_SOURCE)]
    IN  stored # Null =>
           \A i \in DOMAIN Sources(JSONparse(stored)) :
              ~Lacks(Sources(JSONparse(stored))[i], "content")

-----------------------------------------------------------------------------
(* C16 *)

\* C16: in every state of the web form, neither the composable's addSource
\* nor the form's addNewSource yields a sources list longer than the form's
\* maximum.
C16_AddNeverExceedsMax ==
    /\ Len(Sources(addNewSource(webFormData, webSourceTemplate, effectiveMaxSources)))
          <= effectiveMaxSources
    /\ Len(Sources(addSource(webFormData, webSourceTemplate))) <= effectiveMaxSources

\* the same for the form's addNewSource alone
C16_AddNewSourceWithinMax ==
    Len(Sources(addNewSource(webFormData, webSourceTemplate, effectiveMaxSources)))
       <= effectiveMaxSources

-----------------------------------------------------------------------------
(* C17 *)

\* C17: removeSource(index) leaves a form of one source as it is; from a longer
\* list it takes exactly the source at index, keeps the others in their order
\* and changes nothing else of the form; so the sources list is never empty.
C17_RemoveKeepsOne ==
    /\ [](Len(Sources(webFormData)) >= 1)
    /\ [][\A index \in 1..maxSources :
             ClickRemoveWebSource(index) =>
                LET old == Sources(webFormData)
                    new == Sources(webFormData')
                IN  /\ \A k \in DOMAIN webFormData.v \ {"sources"} :
                          Get(webFormData', k) = Get(webFormData, k)
                    /\ IF Len(old) = 1
                       THEN new = old
                       ELSE /\ Len(new) = Len(old) - 1
                            /\ \A i \in 1..Len(new) :
                                  new[i] = (IF i < index THEN old[i] ELSE old[i + 1])]_vars

\* the second source was removed while its optional fields were the open
\* ones, and the first source, typed into, is the one that remains
C17_Witness ==
    /\ Len(Sources(webFormData)) = 1
    /\ currentOpenOptionalFields = JNum(2)
    /\ Get(Sources(webFormData)[1], "url") = JStr(<<"x">>)

-----------------------------------------------------------------------------
(* C18 *)

\* C18: the web form always holds at least one source and at most 3 while
\* the supplement toggle is active, at most maxSources otherwise; switching
\* the toggle on keeps the first 3 sources of a longer list (a list of at most
\* 3 as it is), and switching it off leaves the list as it is.
C18_SourcesWithinMax ==
    /\ [](/\ 1 <= Len(Sources(webFormData))
          /\ Len(Sources(webFormData)) <= (IF supplementUrls THEN 3 ELSE maxSources))
    /\ [][toggleSupplementUrls =>
             LET old == Sources(webFormData)
                 new == Sources(webFormData')
             IN  IF supplementUrls' /\ Len(old) > 3
                 THEN new = <<old[1], old[2], old[3]>>
                 ELSE new = old]_vars

\* a list at the reduced maximum, the toggle active, the optional fields of
\* the second source open
C18_Witness ==
    /\ supplementUrls
    /\ Len(Sources(webFormData)) = 3
    /\ Get(Sources(webFormData)[2], "showOptionalFields") = JBool(TRUE)
    /\ Get(webFormData, "supplementUrls") = JBool(TRUE)

-----------------------------------------------------------------------------
(* C19 *)

\* C19: whenever the web form is mounted (the view changes from the preview
\* to the editor) while durable storage holds a form saved under the web
\* form's key, the mounted form's data are the saved data.
C19_MountRestoresSavedForm ==
    [][toggleView /\ isPreviewMode /\ localStorage[FormKey(FORM_WEB)] # Null =>
          webFormData' = JSONparse(localStorage[FormKey(FORM_WEB)])]_vars

-----------------------------------------------------------------------------
(* C20 *)

\* C20: while the browser refuses writes, a save of the web form returns
\* false, leaves durable storage and the form data unchanged and lets no
\* exception escape; and a change of editorContent keeps the content that was
\* typed and lets no exception escape.
C20_WriteFailureReported ==
    [][quotaExceeded =>
          /\ SaveWebForm =>
                /\ ~save(FORM_WEB, webFormData, FormKey(FORM_WEB)).ok
                /\ localStorage' = localStorage
                /\ webFormData' = webFormData
                /\ unhandledError' = unhandledError
          /\ \A markup \in Markup :
                InputEditorContent(markup) =>
                   /\ editorContent' = markup
                   /\ unhandledError' = unhandledError]_vars

\* the part of C20 about save
C20_SaveFailureReported ==
    [][quotaExceeded /\ SaveWebForm =>
          /\ ~save(FORM_WEB, webFormData, FormKey(FORM_WEB)).ok
          /\ localStorage' = localStorage
          /\ webFormData' = webFormData
          /\ unhandledError' = unhandledError]_vars

-----------------------------------------------------------------------------
(* C21 *)

\* C21: every step that changes editorContent leaves the durable entry
\* `editorContent` equal to the new content when that is not empty, and
\* absent, with both counts 0, when it is empty.
C21_StorageFollowsContent ==
    [][editorContent' # editorContent =>
          IF editorContent'.v # <<>>
          THEN localStorage'[EDITOR_CONTENT] = editorContent'
          ELSE /\ localStorage'[EDITOR_CONTENT] = Null
               /\ wordCount' = 0
               /\ charCount' = 0]_vars

\* the editor was cleared after a response had set counts above 0
C21_Witness ==
    /\ editorContent = JStr(<<>>)
    /\ localStorage[EDITOR_CONTENT] = Null
    /\ wordCount = 0
    /\ charCount = 0
    /\ previewContent # <<>>
    /\ route = "/editor"

-----------------------------------------------------------------------------
(* C22 *)

\* the text with every tag (a "<", the characters up to the next ">", and
\* that ">") replaced by sep
RECURSIVE WithoutTags(_, _)
WithoutTags(s, sep) ==
    IF s = <<>> THEN <<>>
    ELSE IF s[1] = "<" /\ \E j \in 2..Len(s) : s[j] = ">"
         THEN LET close == CHOOSE j \in 2..Len(s) :
                              s[j] = ">" /\ \A k \in 2..(j - 1) : s[k] # ">"
              IN  sep \o WithoutTags(SubSeq(s, close + 1, Len(s)), sep)
         ELSE <<s[1]>> \o WithoutTags(Tail(s), sep)

\* the number of whitespace-separated tokens of a text
Tokens(text) == WordStarts(text, TRUE)

\* C22 as stated: the word count of a markup is the number of
\* whitespace-separated tokens of the markup with its tags taken out (0 when
\* nothing but whitespace is left).
C22_WordsOfStrippedText ==
    updateCounts(editorContent).words = Tokens(WithoutTags(editorContent.v, <<>>))

\* C22, amended: the word count of a markup is 0 exactly if the markup with
\* its tags taken out is empty or whitespace only; in general it is the
\* number of whitespace-separated tokens of the markup with every tag
\* replaced by one space, so that a tag separates words as whitespace does.
C22_WordsWithTagsAsSpaces ==
    /\ (updateCounts(editorContent).words = 0) =
          (Trim(WithoutTags(editorContent.v, <<>>)) = <<>>)
    /\ updateCounts(editorContent).words = Tokens(WithoutTags(editorContent.v, <<" ">>))

\* the editor holds two letters with a tag between them, counted as two words
C22_Witness ==
    /\ editorContent = JStr(<<"a", "<", ">", "a">>)
    /\ wordCount = 2

-----------------------------------------------------------------------------
(* C23 *)

\* C23: the character count of a markup is the length of the markup with all
\* tags and all whitespace characters taken out.
C23_CharsOfStrippedText ==
    updateCounts(editorContent).chars =
       Len(SelectSeq(WithoutTags(editorContent.v, <<>>), LAMBDA c : ~IsSpace(c)))

\* the editor holds a tag with a space inside, a space and a letter
C23_Witness ==
    /\ editorContent = JStr(<<"<", " ", ">", "a">>)
    /\ charCount = 1

-----------------------------------------------------------------------------
(* C24 *)

\* no object of the value, at any depth, has a key of EXCLUDED_KEYS
RECURSIVE NoUiKeys(_)
NoUiKeys(d) ==
    IF d.t = "arr" THEN \A i \in DOMAIN d.v : NoUiKeys(d.v[i])
    ELSE IF d.t = "obj"
    THEN /\ DOMAIN d.v \cap {"showOptionalFields", "showMetadata"} = {}
         /\ \A k \in DOMAIN d.v : NoUiKeys(d.v[k])
    ELSE TRUE

\* out is d with the two keys taken out and nothing else changed: arrays
\* correspond element by element, objects key by key, other values are equal
RECURSIVE OnlyUiKeysRemoved(_, _)
OnlyUiKeysRemoved(d, out) ==
    IF d.t = "arr"
    THEN /\ out.t = "arr"
         /\ Len(out.v) = Len(d.v)
         /\ \A i \in DOMAIN d.v : OnlyUiKeysRemoved(d.v[i], out.v[i])
    ELSE IF d.t = "obj"
    THEN /\ out.t = "obj"
         /\ DOMAIN out.v = DOMAIN d.v \ {"showOptionalFields", "showMetadata"}
         /\ \A k \in DOMAIN out.v : OnlyUiKeysRemoved(d.v[k], out.v[k])
    ELSE out = d

\* the value held under the web form's key
StoredValue == JSONparse(localStorage[FormKey(FORM_WEB)])

-----------------------------------------------------------------------------
(* C25 *)

\* how many of the three groups hold the source
GroupsHolding(source) ==
    (IF \E i \in DOMAIN academicSource : academicSource[i] = source THEN 1 ELSE 0)
    + (IF \E i \in DOMAIN webSource : webSource[i] = source THEN 1 ELSE 0)
    + (IF \E i \in DOMAIN otherSource : otherSource[i] = source THEN 1 ELSE 0)

RECURSIVE ScoreSum(_)
ScoreSum(group) ==
    IF group = <<>> THEN 0
    ELSE Get(Head(group), "credibility_score").v + ScoreSum(Tail(group))

\* the credibility shown for the group is the mean of its scores, 0 for none
IsMean(group) ==
    IF group = <<>> THEN sourceCredibility(group).num = 0
    ELSE sourceCredibility(group).num * Len(group)
            = ScoreSum(group) * sourceCredibility(group).den

\* C25: the academic, web and other groups partition the sources (every
\* source, also one without a type, is in exactly one group); a group's
\* status is 'verified' exactly if it is not empty, and its credibility is
\* the mean of the scores of its members (0 for an empty group).
C25_GroupsPartitionSources ==
    /\ \A i \in DOMAIN sources.v : GroupsHolding(sources.v[i]) = 1
    /\ Len(academicSource) + Len(webSource) + Len(otherSource) = Len(sources.v)
    /\ \A group \in {academicSource, webSource, otherSource} :
          /\ (statusBadge(group) = "verified") = (group # <<>>)
          /\ statusBadge(group) \in {"verified", "unverified"}
          /\ IsMean(group)

\* a blog and a source without a type were reported: one web source of
\* credibility 95, one other source of credibility 40, no academic source
C25_Witness ==
    /\ Len(sources.v) = 2
    /\ Len(webSource) = 1
    /\ Len(otherSource) = 1
    /\ "type" \notin DOMAIN otherSource[1].v
    /\ sourceCredibility(webSource) = [num |-> 95, den |-> 1]
    /\ sourceCredibility(otherSource) = [num |-> 40, den |-> 1]
    /\ statusBadge(academicSource) = "unverified"

-----------------------------------------------------------------------------
(* C28 *)

\* the group of the sources summary a card stands for
GroupOf(card) ==
    CASE card = "academic" -> academicSource
      [] card = "web" -> webSource
      [] card = "other" -> otherSource

\* C28: opening the source-details drawer from the card of a category
\* (academic, web or other) shows exactly the sources of that category's
\* group; closing the drawer resets the active category to none.
C28_DrawerShowsGroup ==
    /\ [][\A card \in SourceCards :
             ClickSourceCard(card) => (showSourceDetails' /\ drawerSources' = GroupOf(card)')]_vars
    /\ [][closeSourceDetails => (activeSourceType' = Null /\ ~showSourceDetails')]_vars

-----------------------------------------------------------------------------
(* C29 *)

\* C29: the left and the right sidebar are never both open; a toggle that
\* opens one sidebar closes the other, and a toggle that closes one leaves
\* the other as it was.
C29_SidebarsExclusive ==
    /\ [](~(isLeftSidebarOpen /\ isRightSidebarOpen))
    /\ [][toggleLeftSidebar =>
             /\ isLeftSidebarOpen' = ~isLeftSidebarOpen
             /\ (isLeftSidebarOpen' => ~isRightSidebarOpen')
             /\ (~isLeftSidebarOpen' => isRightSidebarOpen' = isRightSidebarOpen)]_vars
    /\ [][toggleRightSidebar =>
             /\ isRightSidebarOpen' = ~isRightSidebarOpen
             /\ (isRightSidebarOpen' => ~isLeftSidebarOpen')
             /\ (~isRightSidebarOpen' => isLeftSidebarOpen' = isLeftSidebarOpen)]_vars

\* the left sidebar was opened, which closed the right one, while the drawer
\* it holds was open
C29_Witness ==
    /\ isLeftSidebarOpen
    /\ ~isRightSidebarOpen
    /\ showSourceDetails

-----------------------------------------------------------------------------
(* C26 *)

\* the keys the document fills in
DocumentKeys == {"title", "content", "citationStyle"}

\* body is the form data with the three document fields set to title,
\* content and style, and without the UI keys
IsBodyOf(body, formData, title, content, style) ==
    /\ body.t = "obj"
    /\ DOMAIN body.v =
          (DOMAIN formData.v \ {"showOptionalFields", "showMetadata"}) \cup DocumentKeys
    /\ body.v["title"] = title
    /\ body.v["content"] = content
    /\ body.v["citationStyle"] = style
    /\ \A k \in DOMAIN body.v \ DocumentKeys : OnlyUiKeysRemoved(formData.v[k], body.v[k])
    /\ NoUiKeys(body)

\* the request sent last
LastRequest(reqs) == reqs[Len(reqs)]

\* C26: the body of a request generateCitations sends is the form data as
\* stored under the selected key ({formType: 'auto'} for the auto variant),
\* not the form data in memory, with title, content and citationStyle set to
\* the document title, the editor content and the citationStyle argument,
\* whatever the stored form holds under these names, and without any
\* showOptionalFields or showMetadata key at any depth.
C26_BodyFromStoredForm ==
    [][(ClickCiteMe /\ Len(requests') = Len(requests) + 1) =>
          IsBodyOf(LastRequest(requests'),
                   IF selectedForm = JStr(FormKey(FORM_AUTO))
                   THEN JObj([formType |-> JStr(FORM_AUTO)])
                   ELSE JSONparse(localStorage[selectedForm.v]),
                   documentTitle, editorContent, citationStyle)]_vars

\* a request carries the stored url, the stored form's empty citationStyle
\* replaced by the selected one, and no panel flag, while the form in memory
\* holds another url
C26_Witness ==
    /\ requests # <<>>
    /\ Get(requests[1], "formType") = JStr(FORM_WEB)
    /\ Get(requests[1], "citationStyle") = JStr(<<"A","P","A">>)
    /\ Get(Get(requests[1], "sources").v[1], "url") = JStr(<<"x">>)
    /\ "showOptionalFields" \notin DOMAIN Get(requests[1], "sources").v[1].v
    /\ Get(Get(webFormData, "sources").v[1], "url") # JStr(<<"x">>)

-----------------------------------------------------------------------------
(* C27 *)

\* text is body + '<h2>References</h2>' + references of a delivered response
IsDeliveredDocument(text) ==
    \E response \in OkResponses :
        text = JStr(response.data.v.result.v.formatted_text.v
                       \o ReferencesHeading
                       \o response.data.v.result.v.references.v)

\* C27: the edit action does not corrupt the document, also when the
\* preview content is empty (the user switched to the preview before any
\* successful generation): after the edit action, editorContent is either
\* unchanged or body + '<h2>References</h2>' + references for a body and
\* references that a response delivered.
C27_EditNeverCorrupts ==
    [][editContent =>
          (editorContent' = editorContent \/ IsDeliveredDocument(editorContent'))]_vars

-----------------------------------------------------------------------------
(* C30 *)

\* the sources of the web form whose optional fields are shown
OpenPanels ==
    {i \in DOMAIN Get(webFormData, "sources").v :
        Get(Get(webFormData, "sources").v[i], "showOptionalFields") = JBool(TRUE)}

\* C30: in the web form, whatever the sequence of toggleOptionalFields,
\* add-source and removeSource actions, at most one source has
\* showOptionalFields set to true.
C30_OnePanelOpen == Cardinality(OpenPanels) <= 1

=============================================================================
